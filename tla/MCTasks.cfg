SPECIFICATION Spec
CONSTANT c1 = c1
CHECK_DEADLOCK FALSE
PROPERTIES
    AllAnswered
    ProxyRecovers
    StopsClean
    ConnectionsEnd
