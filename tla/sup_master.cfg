\* Crashes, failing forks, stop requests and disobedient workers.
SPECIFICATION Spec
CONSTANTS
    N = 2
    Pids = {p1, p2, p3}
    NoPid = NoPid
    PollInterval = 1
    ShutdownTimeout = 1
    Grace = 2
    BackoffBase = 1
    BackoffMax = 2
    Width = 1
    MaxCrashes = 2
    MaxForkFails = 1
CHECK_DEADLOCK FALSE
INVARIANTS
    TableIsExact
    EveryWorkerReachable
    NoWorkerOutlivesMaster
PROPERTIES
    BackoffNeverShrinks
    AlwaysRevived
    StopEnds
