SPECIFICATION LiveSpec
CONSTANTS
    Rest = Rest
    Failed = Failed
    topic1 = topic1
    topic2 = topic2
    wild = wild
    topic5 = topic5
    predefined = predefined
    c1 = c1
    c2 = c2
    TopicNames = {"t", "t/#", "p", "ab"}
    MaxTopics = 3
    MaxTid = 4
    MaxInflight = 0
    ShortIds <- MCShortIds
    HostIds <- MCHostIds
    MaxSaved = 1
    CleanFrom = {}
    Filters = {"t/#"}
    Predefined <- MCPredefined
    Registrable = {"t", "t/#"}
    Publications = {}
    DeviceQos = {0, 1, 2, 3}
    MaxMsgId = 3
    MaxRequests = 3
    MaxFaults = 1
    MaxRests = 0
CHECK_DEADLOCK FALSE
PROPERTIES
    SessionsEnd
    RequestsEnd
