---------------------------- MODULE SequenceStore ----------------------------
(***************************************************************************)
(* What the KV cache of wllm promises its callers, without blocks, sharing *)
(* or an index: every sequence has a private store of the K/V of its own   *)
(* history, which grows at its end, is dropped, or is saved and restored   *)
(* whole.  KVCache implements this (KVCache!Store).                        *)
(***************************************************************************)
EXTENDS Integers, Sequences

CONSTANTS Seqs, Adapters, Tokens

VARIABLES
    place,          \* "absent" | "live" | "swapped"
    hist,           \* the tokens of the sequence
    adapter,        \* the adapter its K/V are computed with
    cached,         \* the K/V attention reads for it, position by position
    saved           \* the K/V put aside while it is swapped out

vars == <<place, hist, adapter, cached, saved>>

IsPrefixOf(h, g) == Len(h) <= Len(g) /\ SubSeq(g, 1, Len(h)) = h

\* The K/V of the first n tokens of h under adapter a.
OwnCells(a, h, n) == [p \in 1 .. n |-> [adapter |-> a, prefix |-> SubSeq(h, 1, p)]]

Init ==
    /\ place = [s \in Seqs |-> "absent"]
    /\ hist = [s \in Seqs |-> <<>>]
    /\ adapter \in [Seqs -> Adapters]
    /\ cached = [s \in Seqs |-> <<>>]
    /\ saved = [s \in Seqs |-> <<>>]

Unchanged(s) ==
    /\ place'[s] = place[s] /\ hist'[s] = hist[s] /\ adapter'[s] = adapter[s]
    /\ cached'[s] = cached[s] /\ saved'[s] = saved[s]

\* A request starts: some first part of its prompt is cached.
Begin(s) ==
    /\ place[s] = "absent" /\ place'[s] = "live"
    /\ Len(cached'[s]) <= Len(hist'[s])
    /\ cached'[s] = OwnCells(adapter'[s], hist'[s], Len(cached'[s]))
    /\ saved'[s] = saved[s]

\* More of its history is cached; what was cached stays as it is.
Extend(s) ==
    /\ place[s] = "live" /\ place'[s] = "live"
    /\ adapter'[s] = adapter[s]
    /\ IsPrefixOf(hist[s], hist'[s])
    /\ Len(cached[s]) <= Len(cached'[s])
    /\ Len(cached'[s]) <= Len(hist'[s])
    /\ cached'[s] = cached[s] \o SubSeq(OwnCells(adapter[s], hist'[s], Len(cached'[s])),
                                        Len(cached[s]) + 1, Len(cached'[s]))
    /\ saved'[s] = saved[s]

Drop(s) ==
    /\ place[s] # "absent" /\ place'[s] = "absent"
    /\ hist'[s] = <<>> /\ cached'[s] = <<>> /\ saved'[s] = <<>>

Save(s) ==
    /\ place[s] = "live" /\ place'[s] = "swapped"
    /\ saved'[s] = cached[s] /\ cached'[s] = <<>>
    /\ hist'[s] = hist[s] /\ adapter'[s] = adapter[s]

\* Restored exactly as it was saved, nothing recomputed.
Restore(s) ==
    /\ place[s] = "swapped" /\ place'[s] = "live"
    /\ cached'[s] = saved[s] /\ saved'[s] = <<>>
    /\ hist'[s] = hist[s] /\ adapter'[s] = adapter[s]

\* A batch moves any set of sequences; the others do not notice.
Next ==
    \A s \in Seqs : Unchanged(s) \/ Begin(s) \/ Extend(s) \/ Drop(s) \/ Save(s) \/ Restore(s)

Spec == Init /\ [][Next]_vars
=============================================================================
