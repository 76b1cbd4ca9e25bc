CONSTANTS
    t1 = t1
    t2 = t2
    t3 = t3
    NoThread = NoThread
    Threads <- MC_Threads
SYMMETRY Perms
SPECIFICATION Spec
\* Every thread calls getDefault() once, so the system stops.
CHECK_DEADLOCK FALSE
INVARIANTS
    GetDefaultNeverNull
