SPECIFICATION Spec
CONSTANTS
    Nodes = {"a", "b"}
    Triggers = {"t", "err"}
    OnErrorNodes = {"err"}
    Entrypoints = {"t"}
    Channels = {"default"}
    DefaultChannel = "default"
    Edges <- ChainEdges
    Queues = {"q"}
    RunIds = {1, 2, 3}
    OutputIds = {11}
    MaxEmit = 1
    Stamps = {1, 2, 3, 4}
    ScanLimit = 2
    Max <- MaxOne
    KeyResults <- AnyQueueOrError
    ConfigErrorNodes = {"b"}
    RunErrorNodes = {"b"}
    Breakable = {}
    Deletable = {"a"}
INVARIANTS
    TypeOK
    FinishedRunHasNoOpenWork
    CancellingRunIsDrained
    NoErrorCascade
    ResultMatchesExecutions
PROPERTIES
    ItemsAreNotLost
    ImplementsLifecycle
CHECK_DEADLOCK FALSE
