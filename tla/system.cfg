SPECIFICATION Spec
CONSTANTS
    MaxPods = 3
    Absent = Absent
    Foreign = Foreign
    Handler = {h1, h2}
    PodName = w
    MaxCrashes = 1
SYMMETRY Symmetric
INVARIANTS
    EndpointPerLease
    EndpointOwnsItsKeys
    OwnCredentials
    NoLeftoverPod
PROPERTIES
    ReuseNeedsFailure
    BackendAgrees
