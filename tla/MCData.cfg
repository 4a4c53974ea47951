SPECIFICATION SuiteSpec
CONSTANTS
    TopicNames = {"a", "b", "c", "d", "e"}
    MaxTopics = 3
    MaxTid = 4
    MaxInflight = 1
    PredefIds = {2, 5}
    Rest = Rest
    d1 = d1
    d2 = d2
    t = t
    u = u
    v1 = v1
    v2 = v2
    e1 = e1
    e2 = e2
    e3 = e3
    e4 = e4
CHECK_DEADLOCK FALSE
INVARIANTS
    TopicIdsHold
    Finds
PROPERTIES
    TablesImplement
    LogIntact
    MatchesRight
    PacketsReadBack
    ComesUp
