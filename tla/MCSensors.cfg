SPECIFICATION SuiteSpec
CONSTANTS
    d1 = d1
    d2 = d2
    Devices = {d1, d2}
    MaxClients = 2
    Listed = {}
    Reports = TRUE
    Restarts = TRUE
    Chatty = TRUE
    MaxAccepts = 3
    None = None
CHECK_DEADLOCK FALSE
INVARIANTS
    TypeOK
PROPERTIES
    PacketsGoRight
    KeptByError
    EveryoneServed
