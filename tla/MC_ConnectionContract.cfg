CONSTANTS
    c1 = c1
    c2 = c2
    s1 = s1
    s2 = s2
    d1 = d1
    d2 = d2
    Conns = {c1, c2}
    Sessions = {s1, s2}
    Dests = {d1, d2}
    Users = {u1}
    Kinds = {prefetch}
    MaxPols = 4
    NoUser = NoUser
    NoConn = NoConn
SPECIFICATION Spec
SYMMETRY Perms
\* Once the factory and every connection are deleted and the policy
\* objects are used up, the program has nothing left to call.
CHECK_DEADLOCK FALSE
INVARIANTS
    TypeOK
    PoliciesOwnedOnce
