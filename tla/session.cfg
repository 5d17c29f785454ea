SPECIFICATION Spec
CONSTANTS
    Cap = 1
    Width = 3
    MaxRequests = 4
INVARIANTS
    TypeOK
    NoSendOnClosedQueue
    ExitStatusAfterRelease
    TerminalFollows
PROPERTIES
    SessionEnds
    ImplementsUse
CHECK_DEADLOCK FALSE
