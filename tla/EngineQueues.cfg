SPECIFICATION StarvationSpec
CONSTANTS
    Nodes = {"a"}
    Triggers = {"t"}
    OnErrorNodes = {}
    Entrypoints = {}
    Channels = {"default"}
    DefaultChannel = "default"
    Edges <- SingleEdge
    Queues = {"q1", "q2"}
    RunIds = {1, 2, 3}
    OutputIds = {}
    MaxEmit = 0
    Stamps = {1, 2, 3}
    ScanLimit = 1
    Max <- MaxOne
    KeyResults <- AnyQueue
    ConfigErrorNodes = {}
    RunErrorNodes = {}
    Breakable = {}
    Deletable = {}
PROPERTIES
    PerQueueFifo
    NoStarvation
CHECK_DEADLOCK FALSE
