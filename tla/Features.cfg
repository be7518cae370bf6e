SPECIFICATION Spec
CONSTANTS
    None = None
    WordBytes <- Letters
    NoIdentifiers <- MCNoIdentifiers
    TextOrder <- MCTextOrder
    MaxNormalizedBytes = 65536
    MaxValueNodes = 65536
    MaxValueDepth = 32
    MaxCollectionItems = 256
    MaxTextOptionItems = 128
    MaxCollectionNodes = 8
    MaxRecordFields = 64
    MaxTextBytes = 1024
    MaxEnumValues = 16
    MaxPointerDepth = 8
    MaxRootGuards = 4
    SafeIntegerMax = 3000
    I32Max = 1000
    U32Max = 2000
    I64 <- MCRange
    U64 <- MCRange
    Sensitive <- MCSensitive
    NoUbusIdentifiers <- MCNoUbusIdentifiers
    NoContracts <- MCNoContracts
    Programs <- MCPrograms
    MaxParameters = 32
    MaxArguments = 64
    MaxOutputFields = 64
    MaxValueBytes = 1024
    MaxRequirements = 36
    MaxAllowed = 64
    MaxCustomOperations = 1024
    MaxObservedMethods = 128
    ReviewedObjects <- ALL
    I32 <- MCRange
    Spelling <- MCSpelling
    MaxCommandBytes = 262144
    MaxProbeBytes = 65536
    MaxActionBytes = 16777216
    MaxActionNodes = 65536
    MaxActionDepth = 32
    Setups <- MCSetups
    Names <- MCNames
    Inputs <- MCInputs
    Descriptions <- MCDescriptions
    Responses <- MCResponses
    MaxOutputBytes = 1048576
    MaxCallResult = 262144
    Envelope = 10
INVARIANT NoDeadOperation
