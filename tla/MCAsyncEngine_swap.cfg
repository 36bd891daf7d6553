\* Speculation and CPU swap, with failures, early closes, stops and restarts.
SPECIFICATION Spec
CONSTANTS
    Reqs = {q1, q2}
    Groups = {g1}
    MaxNew = 3
    MaxGain = 2
    MaxPreempt = 1
    EnableSwap = TRUE
    MayRaise = TRUE
    CanStop = TRUE
INVARIANTS TypeOK StreamIsOutput NoOrphans
PROPERTIES BeamsSettled Answered
