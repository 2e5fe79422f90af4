\* A failed waiter retries from inside the release of its slot.
SPECIFICATION Spec
CONSTANTS
    Slots = {s1, s2}
    Clients = {c1, c2}
    q1 = q1
    q2 = q2
    AllReqs = {q1, q2}
    None = None
    MaxReconnect = 1
    Setups <- RetrySetups
SYMMETRY Symmetric
CHECK_DEADLOCK FALSE
INVARIANTS
    NoLostClient
