\* A client that stalls while its connection is being closed.
SPECIFICATION ClientFairSpec
CONSTANTS
    RequestKinds = {"get", "post"}
    HttpsModes = {TRUE}
    GlobalMw = 0
    RouteMw = 0
    KeepsContract = TRUE
    MaxGen = 1
    MaxSent = 2
    MaxRounds = 2
    MaxChunks = 1
CHECK_DEADLOCK FALSE
PROPERTIES
    EverySlotReleased
