SPECIFICATION Spec
CONSTANTS
    Orders = {"o1", "o2", "o3"}
    DispatchIds = {1, 2, 3}
    Apps = {"x", "y"}
    Removable = {}
    LineVersions <- Edited
    MaxSteps = 2
    Moved = {"o1"}
    Requests = {"r1"}
INVARIANTS
    StepsInOrder
    QueueIsServed
PROPERTIES
    StepsWithinLimit
    FifoAdmission
CHECK_DEADLOCK FALSE
