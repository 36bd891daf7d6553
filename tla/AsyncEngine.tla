----------------------------- MODULE AsyncEngine -----------------------------
(***************************************************************************)
(* wllm/engine/async_engine.py: the loop task that runs scheduler.step()   *)
(* and the coroutines that wait for its output.  Everything between two    *)
(* awaits is one action, so the loop, the callers and the close of an      *)
(* abandoned generator interleave exactly at the awaits.                   *)
(*                                                                         *)
(* The scheduler is what AsyncEngine sees of it: a step appends tokens to  *)
(* some of its sequences, finishes some, and preempts some others, which   *)
(* without CPU swap empties their output (Scheduler.tla says when).        *)
(* Decoding is greedy: the token at an output position is the same after   *)
(* a recomputation, and is written as its position.                        *)
(***************************************************************************)
EXTENDS Integers, Sequences, FiniteSets

CONSTANTS
    Reqs,           \* calls of generate()
    Groups,         \* calls of generate_beam_search()
    MaxNew,         \* max_new_tokens of every request
    MaxGain,        \* most tokens one step gives a sequence (1: no speculation)
    MaxPreempt,     \* bound: preemptions of each request
    EnableSwap,     \* enable_cpu_swap
    MayRaise,       \* scheduler.step() may raise
    CanStop         \* stop() and start() may be called

ASSUME BoundsAssumption ==
    MaxNew \in Nat \ {0} /\ MaxGain \in Nat \ {0} /\ MaxPreempt \in Nat
ASSUME FlagsAssumption ==
    EnableSwap \in BOOLEAN /\ MayRaise \in BOOLEAN /\ CanStop \in BOOLEAN

VARIABLES
    loop,           \* _loop_task: "none" | "running" | "stopping" | "dead"
    client,         \* the caller: "new" | "listening" | "done" | "failed" | "closed"
    listed,         \* seq_id is a key of _queues and _detokenizers
    queue,          \* its asyncio.Queue
    reported,       \* _reported_count (0 also for a missing key)
    got,            \* what the caller has been given
    active,         \* sequences the scheduler has
    out,            \* len(output_token_ids)
    preempted,      \* preemptions so far
    beam_groups,    \* groups the scheduler has
    future,         \* asyncio.Future: "none" | "pending" | "result" | "exception" | "cancelled"
    beam_call       \* its coroutine: "new" | "waiting" | "cancelling" | "returned" | "cancelled"

callVars  == <<client, got>>
queueVars == <<listed, queue, reported>>
schedVars == <<active, out, preempted>>
beamVars  == <<beam_groups, future, beam_call>>
vars == <<loop, callVars, queueVars, schedVars, beamVars>>

Token(i) == [kind |-> "token", pos |-> i]
Done == [kind |-> "done", pos |-> 0]
Failure == [kind |-> "failure", pos |-> 0]

\* Mutant: an off-by-one in the slice of new tokens.
TokensAfterLate(m, n) == [i \in 1 .. (IF n > m THEN n - m ELSE 0) |-> Token(m + i + 1)]

\* output_token_ids[m:], when there are n of them.
TokensAfter(m, n) == [i \in 1 .. (IF n > m THEN n - m ELSE 0) |-> Token(m + i)]

Init ==
    /\ loop = "running"
    /\ client = [r \in Reqs |-> "new"]
    /\ listed = [r \in Reqs |-> FALSE]
    /\ queue = [r \in Reqs |-> <<>>]
    /\ reported = [r \in Reqs |-> 0]
    /\ got = [r \in Reqs |-> <<>>]
    /\ active = {}
    /\ out = [r \in Reqs |-> 0]
    /\ preempted = [r \in Reqs |-> 0]
    /\ beam_groups = {}
    /\ future = [g \in Groups |-> "none"]
    /\ beam_call = [g \in Groups |-> "new"]

-----------------------------------------------------------------------------
(* The callers *)

\* generate() up to its first await.  Nothing asks whether a loop is running.
Generate(r) ==
    /\ client[r] = "new"
    /\ client' = [client EXCEPT ![r] = "listening"]
    /\ listed' = [listed EXCEPT ![r] = TRUE]
    /\ active' = active \cup {r}
    /\ UNCHANGED <<loop, queue, reported, got, out, preempted, beamVars>>

\* The finally clause of generate().
Forget(r) ==
    /\ listed' = [listed EXCEPT ![r] = FALSE]
    /\ reported' = [reported EXCEPT ![r] = 0]

\* queue.get() returns a delta, which is yielded to the caller.
ReceiveToken(r) ==
    /\ client[r] = "listening"
    /\ queue[r] # <<>> /\ Head(queue[r]).kind = "token"
    /\ got' = [got EXCEPT ![r] = Append(@, Head(queue[r]))]
    /\ queue' = [queue EXCEPT ![r] = Tail(@)]
    /\ UNCHANGED <<loop, client, listed, reported, schedVars, beamVars>>

\* ... or the end of the stream, or the exception of the engine.
ReceiveEnd(r) ==
    /\ client[r] = "listening"
    /\ queue[r] # <<>> /\ Head(queue[r]).kind # "token"
    /\ client' = [client EXCEPT ![r] = IF Head(queue[r]) = Done THEN "done" ELSE "failed"]
    /\ queue' = [queue EXCEPT ![r] = Tail(@)]
    /\ Forget(r)
    /\ UNCHANGED <<loop, got, schedVars, beamVars>>

\* Mutant: an abandoned sequence is left to the scheduler.
CancelNothing(r) == UNCHANGED active

\* scheduler.cancel(): no effect on a sequence that has finished.
Cancel(r) == active' = active \ {r}

\* The consumer closes the generator early, at a yield or while it waits:
\* a stop string, or a client that went away.
Close(r) ==
    /\ client[r] = "listening"
    /\ client' = [client EXCEPT ![r] = "closed"]
    /\ queue' = [queue EXCEPT ![r] = <<>>]
    /\ Cancel(r)
    /\ Forget(r)
    /\ UNCHANGED <<loop, got, out, preempted, beamVars>>

\* generate_beam_search() up to its await.
GenerateBeam(g) ==
    /\ beam_call[g] = "new"
    /\ beam_call' = [beam_call EXCEPT ![g] = "waiting"]
    /\ future' = [future EXCEPT ![g] = "pending"]
    /\ beam_groups' = beam_groups \cup {g}
    /\ UNCHANGED <<loop, callVars, queueVars, schedVars>>

\* The future is done: the coroutine returns or raises.
BeamReturns(g) ==
    /\ beam_call[g] = "waiting" /\ future[g] \in {"result", "exception"}
    /\ beam_call' = [beam_call EXCEPT ![g] = "returned"]
    /\ UNCHANGED <<loop, callVars, queueVars, schedVars, beam_groups, future>>

\* The awaiting task is cancelled.  A pending future is cancelled with it at
\* once; the coroutine learns of it when the event loop gets to it.
CancelBeam(g) ==
    /\ beam_call[g] = "waiting"
    /\ beam_call' = [beam_call EXCEPT ![g] = "cancelling"]
    /\ future' = [future EXCEPT ![g] = IF @ = "pending" THEN "cancelled" ELSE @]
    /\ UNCHANGED <<loop, callVars, queueVars, schedVars, beam_groups>>

\* CancelledError comes out of the await, also in place of a result: the group
\* is removed if the scheduler still has it.
BeamCancelled(g) ==
    /\ beam_call[g] = "cancelling"
    /\ beam_call' = [beam_call EXCEPT ![g] = "cancelled"]
    /\ beam_groups' = beam_groups \ {g}
    /\ UNCHANGED <<loop, callVars, queueVars, schedVars, future>>

-----------------------------------------------------------------------------
(* The loop *)

\* Mutant: only the latest token is pushed.
OnTokenLatest(U, fin, n) ==
    /\ queue' = [r \in Reqs |->
          IF r \in U /\ listed[r]
          THEN queue[r] \o <<Token(n[r])>> \o (IF r \in fin THEN <<Done>> ELSE <<>>)
          ELSE queue[r]]
    /\ reported' = [r \in Reqs |->
          IF r \in U /\ listed[r] THEN (IF r \in fin THEN 0 ELSE n[r]) ELSE reported[r]]
    /\ listed' = [r \in Reqs |-> listed[r] /\ r \notin fin]

\* _on_token of every updated sequence: those of U now have n output tokens,
\* those of fin have finished.
OnToken(U, fin, n) ==
    /\ queue' = [r \in Reqs |->
          IF r \in U /\ listed[r]
          THEN queue[r] \o TokensAfter(reported[r], n[r]) \o (IF r \in fin THEN <<Done>> ELSE <<>>)
          ELSE queue[r]]
    /\ reported' = [r \in Reqs |->
          IF r \in U /\ listed[r] THEN (IF r \in fin THEN 0 ELSE n[r]) ELSE reported[r]]
    /\ listed' = [r \in Reqs |-> listed[r] /\ r \notin fin]

\* Mutant: the future is not asked whether it is done.
DrainUnguarded(D) == future' = [g \in Groups |-> IF g \in D THEN "result" ELSE future[g]]

\* _drain_completed_beam_groups().
Drain(D) ==
    future' = [g \in Groups |-> IF g \in D /\ future[g] = "pending" THEN "result" ELSE future[g]]

\* One iteration of _run_loop: the sequences of U get tokens, those of P are
\* preempted, the groups of D complete.
Step(U, P, D) ==
    /\ loop = "running"
    /\ U \cup P \subseteq active /\ U \cap P = {} /\ U \cup P \cup D # {}
    /\ D \subseteq beam_groups
    /\ \A r \in P : preempted[r] < MaxPreempt
    /\ preempted' = [r \in Reqs |-> IF r \in P THEN preempted[r] + 1 ELSE preempted[r]]
    /\ \E gain \in [U -> 1 .. MaxGain] : \E fin \in SUBSET U :
         LET n == [r \in Reqs |-> IF r \in U THEN out[r] + gain[r]
                                  ELSE IF r \in P /\ ~EnableSwap THEN 0
                                  ELSE out[r]] IN
         /\ \A r \in U : n[r] <= MaxNew /\ (n[r] = MaxNew => r \in fin)
         /\ out' = n
         /\ OnToken(U, fin, n)
         /\ active' = active \ fin
    /\ Drain(D)
    /\ beam_groups' = beam_groups \ D
    /\ UNCHANGED <<loop, callVars, beam_call>>

\* Mutant: the exception reaches nobody.
FailNobody == UNCHANGED <<queue, listed, future>>

\* _fail_all_pending().
FailAllPending ==
    /\ queue' = [r \in Reqs |-> IF listed[r] THEN Append(queue[r], Failure) ELSE queue[r]]
    /\ listed' = [r \in Reqs |-> FALSE]
    /\ future' = [g \in Groups |-> IF future[g] = "pending" THEN "exception" ELSE future[g]]

\* step() raises: the loop task ends.  Whatever the step did to the scheduler
\* before it raised, no step follows.
StepRaises ==
    /\ MayRaise
    /\ loop = "running"
    /\ active # {} \/ beam_groups # {}
    /\ loop' = "dead"
    /\ FailAllPending
    /\ UNCHANGED <<callVars, reported, schedVars, beam_groups, beam_call>>

\* stop(): the task is cancelled where it sleeps, without failing the callers.
\* On a dead loop stop() raises its exception and leaves _loop_task as it is.
Stop ==
    /\ CanStop
    /\ loop = "running"
    /\ loop' = "stopping"
    /\ UNCHANGED <<callVars, queueVars, schedVars, beamVars>>

StopReturns ==
    /\ loop = "stopping"
    /\ loop' = "none"
    /\ UNCHANGED <<callVars, queueVars, schedVars, beamVars>>

Start ==
    /\ loop = "none"
    /\ loop' = "running"
    /\ UNCHANGED <<callVars, queueVars, schedVars, beamVars>>

\* Nothing is left to do, or nobody does it.
Quiet ==
    /\ loop # "running" \/ (active = {} /\ beam_groups = {})
    /\ UNCHANGED vars

Next ==
    \/ \E r \in Reqs : Generate(r) \/ ReceiveToken(r) \/ ReceiveEnd(r) \/ Close(r)
    \/ \E g \in Groups : GenerateBeam(g) \/ BeamReturns(g) \/ CancelBeam(g) \/ BeamCancelled(g)
    \/ \E U, P \in SUBSET Reqs, D \in SUBSET Groups : Step(U, P, D)
    \/ StepRaises
    \/ Stop \/ StopReturns \/ Start
    \/ Quiet

\* The event loop wakes every coroutine whose await is ready.  Nothing is asked
\* of the scheduler, which may keep a sequence for ever (Scheduler!AllServed,
\* refuted with speculation), nor of those who call, close, stop and start.
Fairness ==
    /\ \A r \in Reqs : WF_vars(ReceiveToken(r) \/ ReceiveEnd(r))
    /\ \A g \in Groups : WF_vars(BeamReturns(g)) /\ WF_vars(BeamCancelled(g))

Spec == Init /\ [][Next]_vars /\ Fairness

-----------------------------------------------------------------------------
(* Properties *)

Items == [kind : {"token", "done", "failure"}, pos : 0 .. MaxNew]

TypeOK ==
    /\ loop \in {"none", "running", "stopping", "dead"}
    /\ client \in [Reqs -> {"new", "listening", "done", "failed", "closed"}]
    /\ listed \in [Reqs -> BOOLEAN]
    /\ queue \in [Reqs -> Seq(Items)] /\ got \in [Reqs -> Seq(Items)]
    /\ reported \in [Reqs -> 0 .. MaxNew] /\ out \in [Reqs -> 0 .. MaxNew]
    /\ active \subseteq Reqs /\ preempted \in [Reqs -> 0 .. MaxPreempt]
    /\ beam_groups \subseteq Groups
    /\ future \in [Groups -> {"none", "pending", "result", "exception", "cancelled"}]
    /\ beam_call \in [Groups -> {"new", "waiting", "cancelling", "returned", "cancelled"}]

\* Everything pushed for r while its caller listens.
Pushed(r) == got[r] \o queue[r]

\* The stream of a request is its output, token by token, then one end marker,
\* whatever speculation and CPU swap do to output_token_ids between two steps.
\* (Recomputation takes output back: StreamInOrder.)
StreamIsOutput ==
    \A r \in Reqs : client[r] \in {"listening", "done"} =>
        LET ended == client[r] = "done" \/ (queue[r] # <<>> /\ queue[r][Len(queue[r])] = Done)
            failed == queue[r] # <<>> /\ queue[r][Len(queue[r])] = Failure IN
        /\ ended \/ listed[r] =>
             Pushed(r) = TokensAfter(0, out[r]) \o
                         (IF ended /\ client[r] # "done" THEN <<Done>> ELSE <<>>)
        /\ ~ended /\ ~listed[r] => failed

\* No token is streamed twice and none is swallowed, also when a preemption
\* empties output_token_ids and the output is generated again: _on_token "Pushes
\* every token new since the last call" (async_engine.py:121).
StreamInOrder ==
    \A r \in Reqs : \A i \in DOMAIN Pushed(r) :
        Pushed(r)[i].kind = "token" => Pushed(r)[i].pos = i

\* A sequence the scheduler still works for has somebody listening, and a
\* listener's entry in _queues lives exactly as long as its sequence: an
\* abandoned generator neither keeps cache blocks nor leaves a queue behind.
NoOrphans ==
    /\ \A r \in Reqs : listed[r] => client[r] = "listening"
    /\ loop # "dead" => \A r \in Reqs : r \in active <=> listed[r]
    /\ \A r \in Reqs : client[r] \in {"done", "failed", "closed"} => reported[r] = 0

\* As long as the loop lives, a group whose future is pending is with the
\* scheduler, and the scheduler has no group nobody waits for: whoever has been
\* cancelled takes it away when the CancelledError arrives.
GroupsKept ==
    loop # "dead" => \A g \in Groups :
        /\ future[g] = "pending" => g \in beam_groups
        /\ g \in beam_groups => future[g] = "pending" \/ beam_call[g] = "cancelling"

\* A future that is done is left as it is (setting it again would raise in the
\* loop task and fail every caller): neither a group that completes between the
\* cancellation and the CancelledError nor a failure of the loop touches it.
FuturesSetOnce ==
    [][\A g \in Groups : future[g] \notin {"none", "pending"} => future'[g] = future[g]]_vars

\* Beam groups, their futures and the coroutines that await them agree, however
\* completion, cancellation and failure interleave (async_engine.py:109-118,
\* 222-232).
BeamsSettled == []GroupsKept /\ FuturesSetOnce

\* No generate() call "would hang forever on queue.get() waiting for a _DONE
\* that will never arrive" (async_engine.py:81-84): whoever has called before
\* the loop fails is told how it ended, unless the scheduler keeps the sequence
\* for ever in a loop that never fails (which stop() without start(), and the
\* livelock of Scheduler.tla, may bring about).  Of calls that come to a loop
\* that has failed already nothing is said: they do hang.
Answered ==
    /\ \A r \in Reqs : [](client[r] = "listening" /\ loop # "dead" =>
            <>(client[r] # "listening") \/ [](r \in active /\ loop # "dead"))
    /\ \A g \in Groups : [](beam_call[g] \in {"waiting", "cancelling"} /\ loop # "dead" =>
            <>(beam_call[g] \in {"returned", "cancelled"}) \/ [](g \in beam_groups /\ loop # "dead"))

=============================================================================
