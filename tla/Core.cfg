SPECIFICATION Spec
CONSTANTS
    a = a
    nl = nl
    x = x
    y = y
    z = z
    Letter = {a}
    Newline = nl
    Typings <- MCTypings
    MaxRequests = 2
    MaxText = 3
    MaxChunk = 2
    LineText = {blank, x, y, z}
    Blank = blank
    Alike <- MCAlike
    Long = {y}
    Files <- MCFiles
    News <- MCNews
    MaxTyped = 1
    Conversations <- MCConversations
    Available = {0, 1, 3, 5}
    Sse = TRUE
    MaxCalls = 3
INVARIANTS
    TypeOK
    ReadersGetTheirText
    PendingIsCurrent
    NoLineIsLost
    StreamedCanBeTakenBack
    DocumentIsDecided
    BlocksMarkTheirLines
    CompiledChatIsSound
PROPERTIES
    RequestsEnd
    McpSettles
CHECK_DEADLOCK FALSE
