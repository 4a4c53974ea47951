SPECIFICATION SafeSpec
CONSTANTS
    c1 = c1
    c2 = c2
    m1 = m1
    m2 = m2
    shortTopic = shortTopic
    plainTopic = plainTopic
    wildTopic = wildTopic
    None = None
    Clients = {c1}
    Pubs = {m1, m2}
    Topics <- MCTopics
    TopicOf <- TopicsPlain
    QosOf <- MCQosOf
    KindOf <- MCKindOf
    MaxNormal = 1
    MaxSaved = 1
    MaxPackets = 1000
    MaxSnMsgId = 255
    MaxTid = 65534
    StopAndWait = TRUE
    RoundTrip = TRUE
    WillFlags = {FALSE}
    CleanFlags = {FALSE}
    MaxConnects = 2
    MaxRequests = 3
    MaxFaults = 0
CHECK_DEADLOCK FALSE
INVARIANTS
    TypeOK
    SilentWhenAsleep
    AtMostOnce
    WillFresh
