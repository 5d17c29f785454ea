SPECIFICATION Spec
CONSTANTS
    Handler = {h1, h2, h3}
    Key = {k1}
    Lease = {l1, l2, l3}
    Nil = Nil
PROPERTIES
    ImplementsService
    WaiterProceeds
    DisconnectReleases
    ShutdownDrains
