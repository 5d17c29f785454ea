SPECIFICATION Spec
CONSTANTS
    Cap = 1
    Requests <- MCRequests
    MaxRequests = 2
    MaxUnread = 1
PROPERTY
    ClosureObserved
CHECK_DEADLOCK FALSE
