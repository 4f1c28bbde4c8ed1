SPECIFICATION Spec
CONSTANTS
    auth = auth
    apiClient = apiClient
    config = config
    mcp = mcp
    Service = {auth, apiClient, config, mcp}
    Deps <- MCDeps
    MaxActs = 3
    MaxAsks = 2
    MaxThrows = 1
    MaxMessages = 3
    MaxRetries = 1
    Call = {c1, c2}
INVARIANTS TypeOK NoOrphans ReloadIsFresh
INVARIANTS IdleMeansEmpty MessagesInOrder InterruptHasReason RequestsAreComplete
PROPERTIES LoadsEnd InterruptTakesEffect
CHECK_DEADLOCK FALSE
