SPECIFICATION FairSpec
CONSTANTS
    Devices = {d1, d2}
    MaxClients = 2
    Listed = {}
    Reports = TRUE
    Restarts = FALSE
    Chatty = TRUE
    MaxAccepts = 2
    None = None
    d1 = d1
    d2 = d2
PROPERTY ReadReturns
CHECK_DEADLOCK FALSE
