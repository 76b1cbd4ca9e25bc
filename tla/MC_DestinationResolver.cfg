CONSTANTS
    Sessions = {s1, s2}
    Names = {Empty, n1}
    Empty = Empty
    MaxDestroy = 1
    MaxRes = 4
    NoDest = NoDest
    NoOut = NoOut
    CMSException = CMSException
SPECIFICATION Spec
\* The destructor ends the object's life: nothing can be called after it.
CHECK_DEADLOCK FALSE
INVARIANTS
    ResolutionIsStable
    NoResolverFault
