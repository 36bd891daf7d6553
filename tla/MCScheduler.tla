----------------------------- MODULE MCScheduler -----------------------------
EXTENDS Scheduler, TLC

CONSTANTS r1, r2, r3, g1

\* BlockSize = 3: three requests that need three blocks each and whose prompt is
\* a whole number of blocks, so that their next token starts a new one; in five
\* blocks the pledge admits two of them and decoding has to preempt one, that
\* may have most of its tokens.
TightPromptLen == (r1 :> 3) @@ (r2 :> 3) @@ (r3 :> 6)
TightMaxNew    == (r1 :> 6) @@ (r2 :> 6) @@ (r3 :> 3)

\* BlockSize = 3: two short requests and one whose prompt takes several chunks.
ChunkPromptLen == (r1 :> 3) @@ (r2 :> 8) @@ (r3 :> 2)
ChunkMaxNew    == (r1 :> 3) @@ (r2 :> 1) @@ (r3 :> 2)

\* BlockSize = 2, for speculation.
DraftPromptLen == (r1 :> 2) @@ (r2 :> 3)
DraftMaxNew    == (r1 :> 3) @@ (r2 :> 3)

\* BlockSize = 3: two requests that the pledge admits into five blocks although
\* both need their third one two tokens before they finish.
LanePromptLen == (r1 :> 3) @@ (r2 :> 3)
LaneMaxNew    == (r1 :> 6) @@ (r2 :> 6)

NoGroups == [g \in {} |-> 1]
MCGroupLen == (g1 :> 2)
MCGroupNew == (g1 :> 3)
=============================================================================
