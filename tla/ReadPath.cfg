SPECIFICATION Spec
CONSTANTS
    None = None
    WordBytes <- OneByte
    NoIdentifiers <- MCNoIdentifiers
    TextOrder <- MCTextOrder
    MaxNormalizedBytes = 48
    MaxValueNodes = 14
    MaxValueDepth = 4
    MaxCollectionItems = 4
    MaxTextOptionItems = 2
    MaxCollectionNodes = 2
    MaxRecordFields = 3
    MaxTextBytes = 3
    MaxEnumValues = 2
    MaxPointerDepth = 2
    MaxRootGuards = 1
    SafeIntegerMax = 3
    I64 <- MCI64
    U64 <- MCU64
    Sensitive <- MCSensitive
    NoUbusIdentifiers <- MCNoUbusIdentifiers
    NoContracts <- MCNoContracts
    Programs <- MCPrograms
    MaxParameters = 1
    MaxArguments = 2
    MaxOutputFields = 3
    MaxValueBytes = 3
    MaxRequirements = 36
    MaxAllowed = 2
    MaxCustomOperations = 1
    MaxObservedMethods = 1
    ReviewedObjects <- MCReviewed
    I32 <- MCI32
    Spelling <- MCSpelling
    MaxCommandBytes = 46
    MaxProbeBytes = 8
    MaxActionBytes = 8
    MaxActionNodes = 14
    MaxActionDepth = 4
    Setups <- MCSetups
    Names <- MCNames
    Inputs <- MCInputs
    Descriptions <- MCDescriptions
    Responses <- MCResponses
    MaxOutputBytes = 8
    MaxCallResult = 192
    Envelope = 10
INVARIANTS StagesAgree RemoteIsLiteral OnlyGranted BudgetIsExact SelectionIsAView
