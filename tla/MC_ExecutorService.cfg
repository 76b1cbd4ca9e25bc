CONSTANTS
    Tasks = {k1, k2, k3}
    Workers = 2
SPECIFICATION Spec
\* Every caller submits one task and deletes its future, so the system stops.
CHECK_DEADLOCK FALSE
INVARIANTS
    TypeOK
    NoUseAfterFree
    NoDoubleFree
PROPERTIES
    NoLeak
    ShutdownTerminates
