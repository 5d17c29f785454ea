SPECIFICATION Spec
CONSTANTS
    alice = alice
    bob = bob
    AllowedUsers <- OneUser
    SSHKey = {key}
    Conn = {c1, c2}
    TTL = 2
    FetchTimeout = 2
    Handshake = 1
    MaxTime = 4
    None = None
SYMMETRY Symmetric
PROPERTIES
    RevokedWithinTTL
