\* Input that arrives while a request is being written.
SPECIFICATION MuxSpec
CONSTANTS
    MuxClients = {c1, c2}
    NoClient = NoClient
    MuxSlots = {1, 2}
    StreamCap = 2
    MaxKey = 3
    Hooked = {TRUE, FALSE}
    Verdicts = {"more", "keep", "close", "error"}
CHECK_DEADLOCK FALSE
INVARIANTS
    UnreadIsAnnounced
