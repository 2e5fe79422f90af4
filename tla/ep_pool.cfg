\* One endpoint of every kind: plain, TLS, with hooks, coalescing, pinned.
SPECIFICATION Spec
CONSTANTS
    Slots = {s1, s2}
    Clients = {c1, c2}
    q1 = q1
    q2 = q2
    AllReqs = {q1, q2}
    None = None
    MaxReconnect = 1
    Setups <- PoolSetups
SYMMETRY Symmetric
CHECK_DEADLOCK FALSE
INVARIANTS
    CountedOnce
    LinksAgree
    SlotStatesSound
    NoLostClient
    CoalescingSound
    PinsSound
    NoIllegalTransition
