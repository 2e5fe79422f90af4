\* Every table and helper of a worker on its own.
SPECIFICATION TablesSpec
CONSTANTS
    Pos = {p1, p2}
    NIL = NIL
    Slots = 4
    Tag <- MCTag
    Timeouts = {2, 3, 5}
    TimeoutMod = 16
    RoundsMod = 4
    FirstTick = 1
    Cooldown = 2
    Reentrant = FALSE
    MaxCalls = 0
    MaxClock = 13
    Sleepers = {z1, z2, z3}
    NoSleeper = NoSleeper
    Delta = 4
    Delays = {1, 5}
    MaxMs = 5
    ShardKeys = {"a", "b", "c", "d", "e"}
    ShardValues = {"v"}
    HashOf <- MCHashOf
    TagOf <- MCTagOf
    GroupWidth = 2
    InitialCap = 4
    MaxCap = 8
    LoadNum = 7
    LoadDen = 8
    Nothing = "none"
    NumSlots = 5
    ExactSize = TRUE
    WordBits = 2
    NoSlot = NoSlot
    MaxResponseCalls = 6
    KeepsContract = TRUE
    PoolInitial = 4
    Overhead = 1
    RoundShift = 4
    MaxAttempts = 4
    BufInit = 2
    GrowSize = 3
    MaxSize = 7
    Pieces = {1, 2, 4}
    MaxBytes = 9
    MaxPool = 11
    Files = {f1, f2, f3, bad}
    Unreadable = {bad}
    CacheCapacity = 2
    Transfers = {t1, t2}
    NoFile = NoFile
    MaxFreq = 3
    Conns = {k1, k2, k3}
    Peers = {"a2", "p"}
    Trusted = {"p"}
    Junk = "junk"
    Chains <- MCChains
    SubnetOf <- MCSubnetOf
    RealIpRecursive = TRUE
    MaxConnectionsPerIp = 2
    MaxTracked = 2
    Burst = 1
    TokensPerTick = 1
    MaxNow = 1
    NoNode = NoNode
    Methods = {"GET", "POST"}
    RoutePaths <- MCRoutePaths
    GroupPrefixes <- MCGroupPrefixes
    Requests <- MCRequests
    ReadAs <- MCReadAs
    MaxCallsMade = 4
SYMMETRY Alike
CHECK_DEADLOCK FALSE
INVARIANTS
    TypeOK
    LateByOneRevolution
    LimitsSound
    RouterExact
PROPERTIES
    FiresOnlyArmed
    FiresInTime
    SleepersSound
    TablesRefine
    OutputWhole
    FilesSound
