SPECIFICATION RCSpec
CONSTANTS
    Nodes = {"a"}
    Triggers = {"t"}
    OnErrorNodes = {}
    Entrypoints = {}
    Channels = {"default"}
    DefaultChannel = "default"
    Edges <- SingleEdge
    Queues = {"q"}
    RunIds = {1, 2}
    OutputIds = {}
    MaxEmit = 0
    Stamps = {1, 2}
    ScanLimit = 2
    Max <- MaxOne
    KeyResults <- AnyQueue
    ConfigErrorNodes = {}
    RunErrorNodes = {}
    Breakable = {"a"}
    Deletable = {"a"}
    StaleReads = {"pass", "cancel", "finish", "save", "callback", "delete"}
PROPERTIES
    RunMovesForward
    DeliveryStartsOnce
    ItemsAreNotLost
CHECK_DEADLOCK FALSE
