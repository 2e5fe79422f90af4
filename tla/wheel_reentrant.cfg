\* Endpoints present: an expiry may cancel or re-arm other positions.
SPECIFICATION Spec
CONSTANTS
    Pos = {p1, p2, p3}
    NIL = NIL
    Slots = 2
    Tag <- MCTag
    Timeouts = {1, 2}
    TimeoutMod = 16
    RoundsMod = 4
    FirstTick = 1
    Cooldown = 2
    Reentrant = TRUE
    MaxCalls = 2
    MaxClock = 5
INVARIANTS
    LinksOK
    NoTimerLost
PROPERTIES
    TickTerminates
