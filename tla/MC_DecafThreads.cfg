CONSTANTS
    Worker = t
    Callers = {c1, c2}
    Handler = h
    NULL = NULL
    JoinArgs <- MCJoinArgs
    PriorityArgs <- MCPriorityArgs
    MaxSteps = 2
    t1 = t1
    t2 = t2
    t3 = t3
    NoThread = NoThread
SPECIFICATION DecafSpec
SYMMETRY SFPerms
\* Every getDefault() caller returns once, and every caller in an untimed
\* join() of a worker that waits on a monitor only they notify cannot
\* move: Thread allows this deadlock of its users.
CHECK_DEADLOCK FALSE
INVARIANTS
    TypeOK
    NoSpuriousInterrupt
    SingleDefaultFactory
