CONSTANTS
    u1 = u1
    u2 = u2
    c1 = c1
    c2 = c2
    conn = conn
    s1 = s1
    k1 = k1
    NoURI = NoURI
    NoParent = NoParent
    URIList <- MC_URIList
    Clients <- MC_Clients
    Resources <- MC_Resources
    Parent <- MC_Parent
    MaxReconnectAttempts = 1
    StartupMaxReconnectAttempts = 2
    Timeout = TRUE
    InitiallyUp = {u2}
    MaxFailures = 2
    Backup = TRUE
    BackupPoolSize = 1

SPECIFICATION Spec

INVARIANTS
    TypeOK
    URINeverLost
    TrackedStateRestored
    BrokerNeverRejects
    AttemptsHonorLimit

PROPERTIES
    WaiterReleased
