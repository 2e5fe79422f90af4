\* The JSON library and the template compiler.
SPECIFICATION DocumentSpec
CONSTANTS
    JsonKeys = {"a", "b", "c"}
    JsonHash <- MCJsonHash
    JsonTrees <- MCJsonTrees
    InitListCap = 1
    MinHtCap = 2
    MaxNodes = 4
    MaxEdits = 4
    TextKeys <- MCTextKeys
    TextBytes = {1, 10, 34, 120}
    RawControls = FALSE
    Units = {65, 2047, 2048, 55295, 55296, 56319, 56320, 57343, 57344, 65535}
    DepthMax = 3
    WriterDepth = 3
    MaxDigits = 2
    Magnitudes <- MCMagnitudes
    MaxText = 9
    MaxSpaces = 1
    MaxNum = 5
    MaxStr = 3
    MaxWritten = 7
    Tags <- MCTags
    TagContexts <- MCTagContexts
    KeepsScopes = TRUE
    MaxTags = 5
    Ids = {"a", "b"}
    NumberOf <- MCNumberOf
    Operators = {"or", "and", "eq", "lt", "not", "dot"}
    ExprContexts <- MCExprContexts
    MaxTokens = 6
    Sites <- MCSites
    TagOf <- MCTagOf
    ChunkSizes = {6, 7, 8, 9, 10}
    Pages = {"p", "q"}
    DynamicAt <- MCDynamicAt
    MaxVersion = 3
CHECK_DEADLOCK FALSE
INVARIANTS
    JsonStoreSound
    JsonTextExact
    PagesExact
PROPERTIES
    JsonIsADocument
