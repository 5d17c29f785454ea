SPECIFICATION Safety
CONSTANTS
    Handler = {h1, h2, h3}
    Key = {k1, k2}
    Lease = {l1, l2, l3}
    Nil = Nil
SYMMETRY Symmetric
INVARIANTS
    TypeOK
    LeaseAgreement
    SerializedCalls
    SessionsKeepWorkspace
    NoAbandonedPod
PROPERTIES
    ImplementsServiceSafety
    ShutdownStartsNothing
