SPECIFICATION FairSpec
CONSTANTS
    Orders = {"o1", "o2"}
    DispatchIds = {1, 2}
    Apps = {"x", "y"}
    Removable = {"y"}
    LineVersions <- Fixed
    MaxSteps = 2
    Moved = {"o1"}
    Requests = {"r1", "r2"}
INVARIANTS
    TypeOK
    OnePlacePerTraversal
PROPERTIES
    TraversalsEnd
CHECK_DEADLOCK FALSE
