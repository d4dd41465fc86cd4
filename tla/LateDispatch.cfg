SPECIFICATION RCSpec
CONSTANTS
    Nodes = {"a"}
    Triggers = {"t"}
    OnErrorNodes = {}
    Entrypoints = {}
    Channels = {"default"}
    DefaultChannel = "default"
    Edges <- SingleEdge
    Queues = {"q"}
    RunIds = {1}
    OutputIds = {}
    MaxEmit = 0
    Stamps = {1}
    ScanLimit = 2
    Max <- MaxOne
    KeyResults <- AnyQueue
    ConfigErrorNodes = {}
    RunErrorNodes = {}
    Breakable = {}
    Deletable = {}
    StaleReads = {"pass"}
INVARIANTS
    FinishedRunHasNoOpenWork
CHECK_DEADLOCK FALSE
