SPECIFICATION Spec
CONSTANTS
    Conn = {c1, c2}
    MaxChannels = 2
INVARIANTS
    ServeReturnsLast
PROPERTIES
    ConnectionsEnd
CHECK_DEADLOCK FALSE
