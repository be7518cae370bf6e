SPECIFICATION Spec
CONSTANTS
    None = None
    Torn = Torn
    Owners = {o1, o2}
    Captures <- MCCaptures
    SystemPath <- MCPath
    BlockBytes = 2
    MaxChunkBytes = 3
    MaxArchiveBytes = 11
    MaxPayloadBytes = 4
    MaxFileBytes = 2
    MaxFiles = 2
    MaxPathBytes = 4
    MaxPathComponents = 2
    MaxComponentBytes = 2
    MaxTailBytes = 6
    FixedBytes = 2
    TrailerBytes = 2
    MaxSourceBytes = 16
    MaxHeaderBytes = 10
    MaxExtraBytes = 2
    MaxNameBytes = 3
    MaxCommentBytes = 3
    OutputBufferBytes = 3
    MaxExpansionRatio = 4
    ExpansionSlackBytes = 1
    SealChunk = 2
    CopyBytes = 4
    CipherOverhead = 1
    InputLimit = 16
    OutputLimit = 17
INVARIANTS VerdictIsExact ReportIsTrue SlotIsHeld
PROPERTIES SlotReturns
