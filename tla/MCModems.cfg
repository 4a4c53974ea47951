SPECIFICATION SuiteSpec
CONSTANTS
    None = None
    Clients = {c1, c2}
    Secure = TRUE
    Tickets = TRUE
    Kinds = {"CONNECT", "other", "DISCONNECT"}
    MaxPackets = 1
CHECK_DEADLOCK FALSE
INVARIANTS
    SendsTruthful
    FramesIntact
    InUse
