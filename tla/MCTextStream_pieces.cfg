\* Characters of several tokens: do the deltas put together give the decoded text?
SPECIFICATION TextSpec
CONSTANTS
    TextTokens <- MCTextTokens
    Chars <- MCChars
    Decode <- MCDecode
    Stops <- MCStops
    InclusiveStops <- MCInclusive
    MaxTokens = 5
INVARIANT DeltasReassemble
CHECK_DEADLOCK FALSE
