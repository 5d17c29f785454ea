SPECIFICATION Spec
CONSTANTS
    alice = alice
    bob = bob
    AllowedUsers <- TwoUsers
    SSHKey = {key}
    Conn = {c1, c2}
    TTL = 2
    FetchTimeout = 1
    Handshake = 1
    MaxTime = 4
    None = None
SYMMETRY Symmetric
INVARIANTS
    CacheBound
PROPERTIES
    RevocationBound
    AmbiguityBound
