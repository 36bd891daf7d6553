-------------------------------- MODULE Lists --------------------------------
(***************************************************************************)
(* What is in a list, and the list comprehension that keeps some of it.    *)
(***************************************************************************)
EXTENDS Integers, Sequences

Elems(q) == {q[i] : i \in DOMAIN q}

\* Those elements of q that are in S, in the order of q.
Only(q, S) ==
    LET f[i \in 0 .. Len(q)] ==
            IF i = 0 THEN <<>> ELSE IF q[i] \in S THEN Append(f[i - 1], q[i]) ELSE f[i - 1]
    IN  f[Len(q)]

=============================================================================
