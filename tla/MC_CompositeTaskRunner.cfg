CONSTANTS
    Tasks = {reconnect, backupFill}
    Clients = {c1, c2}
    MaxWork = 2
SPECIFICATION Spec
\* After shutdown() the runner thread has died and the main thread has
\* returned from join(): the system stops there.
CHECK_DEADLOCK FALSE
INVARIANTS
    NoLostWakeup
PROPERTIES
    WorkEventuallyIterated
    ShutdownJoins
