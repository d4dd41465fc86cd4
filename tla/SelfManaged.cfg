SPECIFICATION FairSpec
CONSTANTS
    Kinds = {"merge", "loop"}
    Runs = {"r1", "r2"}
    Sources = {"a", "b"}
    Removable = {"b"}
    Cancellable = {"r1"}
    MaxArrivals <- ThreeInputs
    Returns = 1
    MaxSessions = 1
    MaxIterations = 3
INVARIANTS
    TypeOK
    SessionsWithinLimit
    RoundsWithinLimit
    InputsAreCollected
    DecidedOnce
PROPERTIES
    SessionsEnd
    StartsAreServed
CHECK_DEADLOCK FALSE
