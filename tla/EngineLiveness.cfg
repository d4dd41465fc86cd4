SPECIFICATION WorkerSpec
CONSTANTS
    Nodes = {"a", "b"}
    Triggers = {"t", "err"}
    OnErrorNodes = {"err"}
    Entrypoints = {"t"}
    Channels = {"default"}
    DefaultChannel = "default"
    Edges <- ChainEdges
    Queues = {"q"}
    RunIds = {1, 2}
    OutputIds = {11}
    MaxEmit = 1
    Stamps = {1, 2, 3}
    ScanLimit = 1
    Max <- MaxOne
    KeyResults <- AnyQueueOrError
    ConfigErrorNodes = {}
    RunErrorNodes = {}
    Breakable = {"a"}
    Deletable = {"a", "t"}
PROPERTIES
    CancellingRunFinishes
    DeletedNodeReleasesExecutions
    EveryRunFinishes
CHECK_DEADLOCK FALSE
