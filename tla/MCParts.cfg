\* The parts of a step, the text on its way out and the gate of the server, one at a time.
SPECIFICATION Spec
CONSTANTS
    BeamVocab = 4
    BeamStops = {3, 4}
    LogProbRows <- MCLogProbRows
    BeamParams <- MCBeamParams
    LengthPower <- MCPower
    LaneSeqs = {s1, s2, s3}
    Adapters = {lora}
    NoLora = NoLora
    Zero = Zero
    LaneBlocks = 4
    LaneSlots = 2
    BucketSizes = {2}
    MaxBlocksPerSeq = 2
    PromptLens = {1}
    LaneMaxLen = 3
    MaxLoads = 1
    Tokens = {1, 2, 3, 4}
    Exp <- MCExp
    Stop = 4
    Prompts <- MCPrompts
    Chains <- MCChains
    ParamChoices <- MCParams
    MaxNewTokens = 4
    NgramSize = 1
    MaxDraftLen = 2
    Guided <- MCGuided
    GuideEnd = 3
    MaxPreemptions = 1
    TextTokens <- MCTextTokens
    Chars <- MCChars
    Decode <- MCDecode
    Stops <- MCStops
    InclusiveStops <- MCInclusive
    MaxTokens = 5
    ApiKeys = {k1}
    OtherKeys = {k2}
    NoKey = NoKey
    NoLimit = 99
    Limits = {0, 1, 2, 99}
    Hosts = {host}
    WindowSeconds = 2
    TicksPerSecond = 2
    MaxTime = 7
    MaxRequests = 4
SYMMETRY MCSymmetry
INVARIANTS
    HypothesesExact PrunedOnlyByStops OneBeamIsGreedy
    RowsAreTheirOwn CellsIntact
    OutputAsSampled SampledAsDocumented LogprobsEndWithOutput
    TextTypeOK NothingLost StopsAtOnce StopNeverShown TagSurvives SourceReleased StopIsReported
    WindowNeverExceeded RetryAfterHonest QuotaIsOwn
CHECK_DEADLOCK FALSE
