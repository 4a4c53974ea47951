SPECIFICATION SuiteSpec
CONSTANTS
    None = None
    a = a
    b = b
    Clients <- MCClients
    Topics = {"t"}
    ClientMsgIds = {1}
    ShortTopics = {}
    Covers <- MCTopicsCovered
    Matched <- MCovers
    Kinds = {"CONNECT", "SUBSCRIBE", "PUBLISH", "DUP", "ACK"}
    MaxEntries = 1
    MaxPacketId = 5
    MaxPackets = 5
    MaxNews = 0
    MaxLosses = 1
CHECK_DEADLOCK FALSE
INVARIANTS
    IdsAgree
    RequestsAnswered
    OneClientEach
PROPERTIES
    DeliversAsTold
    FansOutOnce
