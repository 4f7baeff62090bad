SPECIFICATION Spec
CONSTANTS
    t1 = t1
    t2 = t2
    t3 = t3
    Thread <- MCThread
    NoLock = NoLock
SYMMETRY Symmetry
INVARIANT
    NoDeadlock
