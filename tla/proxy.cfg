SPECIFICATION Spec
CONSTANTS
    Cap = 1
    Requests <- MCRequests
    MaxRequests = 2
    MaxUnread = 1
INVARIANTS
    TypeOK
    ReportComesLast
    ExitPreserved
    OneProcess
PROPERTIES
    ProxyEnds
    ImplementsUse
CHECK_DEADLOCK FALSE
