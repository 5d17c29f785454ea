SPECIFICATION Spec
CONSTANTS
    Width = 2
    MaxBuffer = 2
INVARIANTS
    SetupLeavesTransport
    InputDrained
    NothingLostOrHidden
PROPERTIES
    ForwardEnds
    CompletionsArrive
    ImplementsUse
CHECK_DEADLOCK FALSE
