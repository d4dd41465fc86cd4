SPECIFICATION RCWorkerSpec
CONSTANTS
    Nodes = {"a"}
    Triggers = {"t"}
    OnErrorNodes = {}
    Entrypoints = {}
    Channels = {"default"}
    DefaultChannel = "default"
    Edges <- SingleEdge
    Queues = {"q1", "q2"}
    RunIds = {1, 2}
    OutputIds = {}
    MaxEmit = 0
    Stamps = {1, 2}
    ScanLimit = 2
    Max <- MaxOne
    KeyResults <- AnyQueue
    ConfigErrorNodes = {}
    RunErrorNodes = {}
    Breakable = {}
    Deletable = {"a"}
    StaleReads = {"pass", "finish"}
INVARIANTS
    QueueWithinCapacity
PROPERTIES
    CancellingRunFinishes
CHECK_DEADLOCK FALSE
