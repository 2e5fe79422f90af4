\* Every request ends, one way or another.  No symmetry: it is unsound here.
SPECIFICATION Spec
CONSTANTS
    Slots = {s1, s2}
    Clients = {c1, c2}
    q1 = q1
    q2 = q2
    AllReqs = {q1, q2}
    None = None
    MaxReconnect = 1
    Setups <- LiveSetups
CHECK_DEADLOCK FALSE
PROPERTIES
    EveryRequestEnds
