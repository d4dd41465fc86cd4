SPECIFICATION FairSpec
CONSTANTS
    RunIds = {1, 2, 3}
    Apps = {"A", "B"}
    Entries <- TwoApps
    RootEntry <- OneRoot
    MaxDepth = 2
    Cancellable = {2}
    Deletable = {"A"}
    Removable <- RemovableEntries
INVARIANTS
    TypeOK
    NoMissedCallback
    CallReportsRun
    NoRunLeftBehind
    ChainsEnd
PROPERTIES
    ImplementsLifecycle
    CallsEnd
    CancelledRunsFinish
CHECK_DEADLOCK FALSE
