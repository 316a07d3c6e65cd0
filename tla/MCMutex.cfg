\* Three threads, a mutex held up to twice, two structures it may be made of.
CONSTANTS
    t1 = t1  t2 = t2  t3 = t3  o1 = o1  o2 = o2
    Thread = {t1, t2, t3}
    Obj = {o1, o2}
    MaxDepth = 2
    NULL = NULL  Made = Made
SPECIFICATION Spec
SYMMETRY Symmetric
PROPERTIES ImplementsReentrantLock NoMissedNotify
