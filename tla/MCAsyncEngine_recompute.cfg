\* Preemption by recomputation: is a token streamed once?
SPECIFICATION Spec
CONSTANTS
    Reqs = {q1}
    Groups = {}
    MaxNew = 3
    MaxGain = 1
    MaxPreempt = 1
    EnableSwap = FALSE
    MayRaise = FALSE
    CanStop = FALSE
INVARIANT StreamInOrder
