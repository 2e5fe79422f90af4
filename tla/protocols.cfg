\* The protocols an endpoint speaks and the refresh of its addresses.
SPECIFICATION ProtocolSpec
CONSTANTS
    MuxClients = {c1, c2}
    NoClient = NoClient
    MuxSlots = {1, 2}
    StreamCap = 2
    MaxKey = 3
    Hooked = {TRUE, FALSE}
    Verdicts = {"more", "keep", "close", "error"}
    MaxResponseLines = 2
    MaxMails = 2
    Bodies <- MCBodies
    Caps <- MCCaps
    MaxBody = 2
    MaxHeaders = 2
    MaxInfo = 1
    MaxRequests = 2
    Sqls = {"begin", "sel", "ins"}
    RowsOf <- MCRowsOf
    HomeOf <- MCHomeOf
    CacheCap = 2
    ProbeLen = 2
    MinUses = 1
    MaxEpoch = 2
    MaxReqs = 3
    MaxSessions = 2
    DrainsStreams = TRUE
    Handshakes = {"ok", "cleartext", "sasl", "continue", "final", "ready", "error"}
    DnsConfigs <- MCDnsConfigs
    ClientSlots = 4
    SlotUnit = 2
    RegisterMax = 2
    Hosts = {"A", "B", "C"}
    AnswerOf <- MCAnswerOf
    HostHash <- MCHostHash
    LiteralTtl = 99
    DnsThreads = 2
    MinRefresh = 1
    MaxRefresh = 2
    QueryTimeout = 1
    Walkers = {w1}
    CursorRange = 2
    MaxClock = 2
CHECK_DEADLOCK FALSE
INVARIANTS
    MuxSound
    AnswersMatchRequests
    SecretsEncrypted
    DnsSound
PROPERTIES
    AddressesNeverGoBack
