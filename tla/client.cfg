\* One client connection against its peer, the timers and an endpoint.
SPECIFICATION ClientFairSpec
CONSTANTS
    RequestKinds = {"get", "post"}
    HttpsModes = {TRUE, FALSE}
    GlobalMw = 2
    RouteMw = 1
    KeepsContract = TRUE
    MaxGen = 1
    MaxSent = 2
    MaxRounds = 2
    MaxChunks = 1
CHECK_DEADLOCK FALSE
INVARIANTS
    ResponsesInStep
    ClientSound
PROPERTIES
    NoRequestUnderSuspended
    ClientsEnd
